---------------------------- MODULE Spec2Model ----------------------------
(*************************************************************************)
(* A model of lab_7_llm: the dataset importer, the preprocessor, the     *)
(* dataset adapter, the inference pipeline, the evaluator                *)
(* (src/lab_7_llm/main.py) and the driver (src/lab_7_llm/start.py).      *)
(*                                                                       *)
(* Strings are sequences of one-character strings.  A missing value      *)
(* (pandas NaN) is the one-element sequence NaN, which is no string.     *)
(* Python's None is the empty tuple None and a present value x is the    *)
(* one-element tuple Some(x).                                            *)
(*************************************************************************)
EXTENDS Integers, Sequences, FiniteSets, TLC

VARIABLES
    importer_raw_data,  \* RawDataImporter._raw_data
    last_obtain,        \* the last obtain() call: what it fetched, how it ended
    raw_given,          \* the table RawDataPreprocessor was constructed with
    raw_data,           \* RawDataPreprocessor._raw_data
    data,               \* RawDataPreprocessor._data
    analysis,           \* what the last analyze() call returned or raised
    n_analyze,          \* analyze() calls made so far (capped)
    n_transform,        \* transform() calls made so far (capped)
    model,              \* LLMPipeline._model: "None", or the kind of model loaded
    dataset,            \* TaskDataset._data, the table the pipeline infers
    batch_size,         \* LLMPipeline._batch_size
    infer_pc,           \* where infer_dataset() is: idle, loop, done, raised
    batch_no,           \* batches the loader has yielded so far
    targets,            \* infer_dataset()'s local targets
    predictions,        \* infer_dataset()'s local predictions
    data_predictions,   \* the table infer_dataset() returned
    last_batch,         \* the last _infer_batch() call: inputs, decoded, returned
    last_call,          \* the last infer_sample() or analyze_model() call
    tokenizer_calls,    \* tokenizer encodings made by the operation under way
    generate_calls,     \* model.generate() calls made by the operation under way
    pc,                 \* main(): the stage to run next, or how the run ended
    stage_log,          \* main(): the stages completed, in order
    settings,           \* main(): the metric names of settings.json
    file,               \* dist/predictions.csv: None, or its text
    n_writes,           \* times main() wrote the predictions file
    evaluator,          \* the TaskEvaluator main() constructed: its metrics
    run_result          \* the last TaskEvaluator.run() call

ImporterVars == <<importer_raw_data, last_obtain>>
PreprocessorVars == <<raw_given, raw_data, data, analysis, n_analyze, n_transform>>
PipelineVars ==
    <<model, dataset, batch_size, infer_pc, batch_no, targets, predictions,
      data_predictions, last_batch, last_call, tokenizer_calls, generate_calls>>
DriverVars == <<pc, stage_log, settings, file, n_writes, evaluator, run_result>>
vars == <<ImporterVars, PreprocessorVars, PipelineVars, DriverVars>>

-----------------------------------------------------------------------------
(* Values *)

None == <<>>
Some(x) == <<x>>
NaN == <<"NaN">>
NL == "\n"

\* Most rows of a raw table handed to a preprocessor.
MaxRows == 3
\* Most rows of a dataset load_dataset() fetches.
MaxFetchedRows == 2
\* Most calls of one method the model follows on one object.
MaxCalls == 2

RECURSIVE SumSeq(_)
SumSeq(s) == IF s = <<>> THEN 0 ELSE Head(s) + SumSeq(Tail(s))

RECURSIVE SelectIdx(_, _, _)
\* The positions i of 1..n, in order, with keep[i].
SelectIdx(keep, i, n) ==
    IF i > n THEN <<>>
    ELSE (IF keep[i] THEN <<i>> ELSE <<>>) \o SelectIdx(keep, i + 1, n)

Range(s) == {s[i] : i \in DOMAIN s}
SeqMin(s) == CHOOSE x \in Range(s) : \A y \in Range(s) : x <= y
SeqMax(s) == CHOOSE x \in Range(s) : \A y \in Range(s) : x >= y

\* Sequences over S of length at most n.
SeqsUpTo(S, n) == UNION {[1..k -> S] : k \in 0..n}

-----------------------------------------------------------------------------
(* Tables (pandas DataFrame): column names in order, index labels, rows.  *)
(* A row maps each column name to a cell.                                 *)

NumRows(t) == Len(t.rows)
RangeIndex(n) == [i \in 1..n |-> i - 1]
IsDataFrame(o) == "columns" \in DOMAIN o

RawColumns == <<"instruction", "context", "response", "category", "text">>
\* A raw table that also carries the source's "index" column.
RawColumnsWithIndex == RawColumns \o <<"index">>

QT == "\""
InstructionCells == {NaN, <<>>, <<"a">>, <<"b", NL, "a">>}
ResponseCells == {NaN, <<"b">>}

RawRow(cols, ins, res) ==
    [c \in Range(cols) |->
        CASE c = "instruction" -> ins
          [] c = "response" -> res
          [] OTHER -> <<"c">>]

RawRows(cols) == {RawRow(cols, ins, res) : ins \in InstructionCells, res \in ResponseCells}

EmptyTable == [columns |-> RawColumns, index |-> <<>>, rows |-> <<>>]

TablesWith(cols, sparse, n) ==
    {[columns |-> cols,
      index |-> [i \in 1..Len(rows) |-> IF sparse THEN 2 * i + 1 ELSE i - 1],
      rows |-> rows] : rows \in SeqsUpTo(RawRows(cols), n)}

\* The tables Dataset.to_pandas() builds: a RangeIndex.
FetchedTables ==
    TablesWith(RawColumns, FALSE, MaxFetchedRows)
        \cup TablesWith(RawColumnsWithIndex, FALSE, MaxFetchedRows)
\* The tables a preprocessor may be constructed with: any index labels.
RawTables ==
    TablesWith(RawColumns, FALSE, MaxRows)
        \cup TablesWith(RawColumnsWithIndex, FALSE, MaxRows)
        \cup TablesWith(RawColumns, TRUE, MaxRows)

-----------------------------------------------------------------------------
(* RawDataImporter *)

\* What load_dataset(name, split='test') does: it raises, or it returns a
\* Dataset (falsy when it has no rows) whose to_pandas() gives a DataFrame or,
\* for a source that cannot be coerced, some other object.
NotADataFrame == [kind |-> "other"]
Fetches ==
    {[raises |-> TRUE, table |-> EmptyTable, coercible |-> TRUE]}
    \cup {[raises |-> FALSE, table |-> t, coercible |-> TRUE] : t \in FetchedTables}
    \cup {[raises |-> FALSE, table |-> t, coercible |-> FALSE] :
             t \in {u \in FetchedTables : NumRows(u) <= 1 /\ u.columns = RawColumns}}

Truthy(fetch) == NumRows(fetch.table) > 0
to_pandas(fetch) == IF fetch.coercible THEN fetch.table ELSE NotADataFrame

\* self._raw_data after lines 43-45.
ObtainAssigns(old, fetch) == IF Truthy(fetch) THEN Some(to_pandas(fetch)) ELSE old

\* How obtain() ends once the fetch returned (lines 46-47).
ObtainOutcome(raw) ==
    IF raw # None /\ IsDataFrame(raw[1]) THEN "returned" ELSE "TypeError"

obtain(fetch) ==
    IF fetch.raises
    THEN /\ last_obtain' = [fetch |-> fetch, outcome |-> "FetchError"]
         /\ UNCHANGED importer_raw_data
    ELSE /\ importer_raw_data' = ObtainAssigns(importer_raw_data, fetch)
         /\ last_obtain' = [fetch |-> fetch, outcome |-> ObtainOutcome(importer_raw_data')]

NoObtain ==
    [fetch |-> [raises |-> TRUE, table |-> EmptyTable, coercible |-> TRUE], outcome |-> "none"]

InitImporter ==
    /\ importer_raw_data = None
    /\ last_obtain = NoObtain

-----------------------------------------------------------------------------
(* RawDataPreprocessor *)

HasNa(row) == \E c \in DOMAIN row : row[c] = NaN

\* DataFrame.dropna(): a new table of the rows with no missing value.
dropna(t) ==
    LET keep == [i \in 1..NumRows(t) |-> ~HasNa(t.rows[i])]
        idx == SelectIdx(keep, 1, NumRows(t))
    IN  [columns |-> t.columns,
         index |-> [k \in 1..Len(idx) |-> t.index[idx[k]]],
         rows |-> [k \in 1..Len(idx) |-> t.rows[idx[k]]]]

\* DataFrame.duplicated().sum(): the rows equal to an earlier row.
duplicated_sum(t) ==
    Cardinality({i \in 1..NumRows(t) : \E j \in 1..(i - 1) : t.rows[j] = t.rows[i]})

\* DataFrame.isna().sum().sum(): the missing cells.
isna_sum(t) ==
    SumSeq([i \in 1..NumRows(t) |-> Cardinality({c \in DOMAIN t.rows[i] : t.rows[i][c] = NaN})])

\* dropna()['instruction'].apply(len)
InstructionLens(t) == [i \in 1..NumRows(dropna(t)) |-> Len(dropna(t).rows[i]["instruction"])]

\* analyze() taking the lengths over every row, a missing instruction as 0.
AnalyzeResultAllRows(t) ==
    LET lens == [i \in 1..NumRows(t) |->
                    IF t.rows[i]["instruction"] = NaN THEN 0
                    ELSE Len(t.rows[i]["instruction"])]
    IN  IF lens = <<>>
        THEN [raised |-> "ValueError"]
        ELSE [raised |-> "none",
              dataset_number_of_samples |-> NumRows(t),
              dataset_columns |-> Len(t.columns),
              dataset_duplicates |-> duplicated_sum(t),
              dataset_empty_rows |-> isna_sum(t),
              dataset_sample_min_len |-> SeqMin(lens),
              dataset_sample_max_len |-> SeqMax(lens)]

\* analyze(): the statistics, or min() raising on an empty sequence.
AnalyzeResult(t) ==
    IF InstructionLens(t) = <<>>
    THEN [raised |-> "ValueError"]
    ELSE [raised |-> "none",
          dataset_number_of_samples |-> NumRows(t),
          dataset_columns |-> Len(t.columns),
          dataset_duplicates |-> duplicated_sum(t),
          dataset_empty_rows |-> isna_sum(t),
          dataset_sample_min_len |-> SeqMin(InstructionLens(t)),
          dataset_sample_max_len |-> SeqMax(InstructionLens(t))]

\* analyze() dropping the rows with missing values in place.
RawAfterAnalyzeInPlace(t) == dropna(t)

\* self._raw_data after analyze(): dropna() returns a copy, nothing is assigned.
RawAfterAnalyze(t) == t

analyze ==
    /\ analysis' = Some(AnalyzeResult(raw_data))
    /\ raw_data' = RawAfterAnalyze(raw_data)
    /\ n_analyze' = IF n_analyze < MaxCalls THEN n_analyze + 1 ELSE n_analyze
    /\ UNCHANGED <<raw_given, data, n_transform>>

RECURSIVE DropColumns(_, _)
DropColumns(cols, drop) ==
    IF cols = <<>> THEN <<>>
    ELSE (IF Head(cols) \in drop THEN <<>> ELSE <<Head(cols)>>) \o DropColumns(Tail(cols), drop)

DroppedColumns == {"context", "category", "text"}

RenameColumn(c) ==
    CASE c = "instruction" -> "question"
      [] c = "response" -> "target"
      [] OTHER -> c

\* The source column a renamed column came from.
SourceColumn(c) ==
    CASE c = "question" -> "instruction"
      [] c = "target" -> "response"
      [] OTHER -> c

\* reset_index(drop=True): the labels 0..N-1.
reset_index(t) == [t EXCEPT !.index = RangeIndex(NumRows(t))]

\* transform(): drop, rename, reset the index (lines 74-78).
TransformResult(t) ==
    LET kept == DropColumns(t.columns, DroppedColumns)
        cols == [k \in 1..Len(kept) |-> RenameColumn(kept[k])]
    IN  reset_index([columns |-> cols,
                     index |-> t.index,
                     rows |-> [i \in 1..NumRows(t) |->
                                 [c \in Range(cols) |-> t.rows[i][SourceColumn(c)]]]])

\* self._raw_data after transform(): drop() and rename() return copies.
RawAfterTransform(t) == t

transform ==
    /\ data' = Some(TransformResult(raw_data))
    /\ raw_data' = RawAfterTransform(raw_data)
    /\ n_transform' = IF n_transform < MaxCalls THEN n_transform + 1 ELSE n_transform
    /\ UNCHANGED <<raw_given, analysis, n_analyze>>

InitPreprocessorWith(t) ==
    /\ raw_given = t
    /\ raw_data = t
    /\ data = None
    /\ analysis = None
    /\ n_analyze = 0
    /\ n_transform = 0


-----------------------------------------------------------------------------
(* TaskDataset and the DataLoader over it *)

CanonicalColumns == <<"question", "target">>

\* TaskDataset.__getitem__(index): a one-element tuple, index counted from 0.
getitem(ds, index) == <<ds.rows[index + 1]["question"]>>

\* TaskDataset.__len__()
dataset_len(ds) == NumRows(ds)

\* torch's default collation of a list of tuples: one sequence per tuple
\* position, holding that position's value of every sample.
default_collate(samples) ==
    [j \in 1..Len(samples[1]) |-> [i \in 1..Len(samples) |-> samples[i][j]]]

\* A loader that drops a short last batch (drop_last=True).
NumBatchesDropLast(n, b) == n \div b

\* Batches DataLoader(dataset, batch_size) yields: the last may be short.
NumBatches(n, b) == (n + b - 1) \div b

\* The dataset positions (from 0) of batch k (from 0), in order.
BatchIndices(n, b, k) ==
    [i \in 1..((IF (k + 1) * b < n THEN (k + 1) * b ELSE n) - k * b) |-> k * b + i - 1]

LoaderBatch(ds, b, k) ==
    LET idx == BatchIndices(dataset_len(ds), b, k)
    IN  default_collate([i \in 1..Len(idx) |-> getitem(ds, idx[i])])

-----------------------------------------------------------------------------
(* LLMPipeline *)

\* What tokenizing, generating and decoding does to a prompt, for the kinds
\* of model the model considers.
ModelKinds == {"echo", "prompt_answer", "prompt_number", "prompt_only", "prompt_newline"}
Echo == <<"e", "c", "h", "o">>

Decode(kind, question) ==
    CASE kind = "echo" -> Echo \o <<NL>> \o question
      [] kind = "prompt_answer" -> question \o <<NL, "x", ",", QT, "y", QT, NL, "z">>
      [] kind = "prompt_number" -> question \o <<NL, "4", "2">>
      [] kind = "prompt_only" -> question
      [] kind = "prompt_newline" -> question \o <<NL>>

RECURSIVE FirstNewline(_, _)
\* Where the lazy .*? stops: the first newline at or after i, 0 if none.
FirstNewline(s, i) ==
    IF i > Len(s) THEN 0
    ELSE IF s[i] = NL THEN i
    ELSE FirstNewline(s, i + 1)

RECURSIVE re_sub_multiline(_)
\* The substitution under re.MULTILINE: every line that ends in a newline goes.
re_sub_multiline(s) ==
    LET k == FirstNewline(s, 1)
    IN  IF k = 0 THEN s ELSE re_sub_multiline(SubSeq(s, k + 1, Len(s)))

\* re.sub(r"^.*?\n", "", s): ^ matches at the start of the string only.
re_sub(s) ==
    LET k == FirstNewline(s, 1)
    IN  IF k = 0 THEN s ELSE SubSeq(s, k + 1, Len(s))

\* list(sample_batch[0])
BatchInputs(sample_batch) == sample_batch[1]

\* The tokenizer accepts strings only.
TokenizerRaises(sample_batch) ==
    \E i \in DOMAIN BatchInputs(sample_batch) : BatchInputs(sample_batch)[i] = NaN

\* batch_decode(generate(...)): one decoded string per input.
decoded_batch(kind, sample_batch) ==
    [i \in DOMAIN BatchInputs(sample_batch) |-> Decode(kind, BatchInputs(sample_batch)[i])]

\* _infer_batch(): "ValueError" from the tokenizer, "AttributeError" from
\* None.generate, or the decoded strings with their first line removed.
_infer_batch(kind, sample_batch) ==
    IF TokenizerRaises(sample_batch)
    THEN [raised |-> "ValueError", tokenized |-> 1, generated |-> 0, returned |-> <<>>]
    ELSE IF kind = "None"
    THEN [raised |-> "AttributeError", tokenized |-> 1, generated |-> 0, returned |-> <<>>]
    ELSE [raised |-> "none", tokenized |-> 1, generated |-> 1,
          returned |-> [i \in DOMAIN decoded_batch(kind, sample_batch) |->
                           re_sub(decoded_batch(kind, sample_batch)[i])]]

ModelPropertyKeys ==
    {"input_shape", "embedding_size", "output_shape", "num_trainable_params",
     "vocab_size", "size", "max_context_length"}

\* analyze_model(): {} without a model, else the fixed keys.
AnalyzeModelResult(kind) ==
    IF kind = "None"
    THEN [k \in {} |-> kind]
    ELSE [k \in ModelPropertyKeys |-> kind]

analyze_model ==
    /\ infer_pc \in {"idle", "done"}
    /\ last_call' = [op |-> "analyze_model", arg |-> <<>>, raised |-> "none",
                     tokenized |-> 0, generated |-> 0,
                     ret |-> Some(AnalyzeModelResult(model))]
    /\ UNCHANGED <<model, dataset, batch_size, infer_pc, batch_no, targets, predictions,
                   data_predictions, last_batch, tokenizer_calls, generate_calls>>

\* infer_sample() without its guard on the model.
InferSampleResultUnguarded(kind, sample) ==
    LET r == _infer_batch(kind, <<sample>>)
    IN  IF r.raised # "none"
        THEN [raised |-> r.raised, tokenized |-> r.tokenized,
              generated |-> r.generated, ret |-> None]
        ELSE [raised |-> "none", tokenized |-> r.tokenized, generated |-> r.generated,
              ret |-> IF r.returned[1] # <<>> THEN Some(r.returned[1]) ELSE None]

\* infer_sample(): what it returns or raises, and the calls it made.
InferSampleResult(kind, sample) ==
    IF kind = "None"
    THEN [raised |-> "none", tokenized |-> 0, generated |-> 0, ret |-> None]
    ELSE LET r == _infer_batch(kind, <<sample>>)
         IN  IF r.raised # "none"
             THEN [raised |-> r.raised, tokenized |-> r.tokenized,
                   generated |-> r.generated, ret |-> None]
             ELSE [raised |-> "none", tokenized |-> r.tokenized, generated |-> r.generated,
                   ret |-> IF r.returned[1] # <<>> THEN Some(r.returned[1]) ELSE None]

BatchRecord(kind, sample_batch) ==
    LET r == _infer_batch(kind, sample_batch)
    IN  [inputs |-> BatchInputs(sample_batch), raised |-> r.raised,
         decoded |-> IF r.raised = "none" THEN decoded_batch(kind, sample_batch) ELSE <<>>,
         returned |-> r.returned]

infer_sample(sample) ==
    /\ infer_pc \in {"idle", "done"}
    /\ LET r == InferSampleResult(model, sample)
       IN  last_call' = [op |-> "infer_sample", arg |-> sample, raised |-> r.raised,
                         tokenized |-> r.tokenized, generated |-> r.generated,
                         ret |-> r.ret]
    /\ last_batch' = IF model = "None" THEN last_batch ELSE BatchRecord(model, <<sample>>)
    /\ UNCHANGED <<model, dataset, batch_size, infer_pc, batch_no, targets, predictions,
                   data_predictions, tokenizer_calls, generate_calls>>

\* infer_dataset(), lines 215-217: the loader, the targets, no predictions yet.
infer_dataset_begin ==
    /\ infer_pc = "idle"
    /\ infer_pc' = "loop"
    /\ batch_no' = 0
    /\ targets' = [i \in 1..NumRows(dataset) |-> dataset.rows[i]["target"]]
    /\ predictions' = <<>>
    /\ tokenizer_calls' = 0
    /\ generate_calls' = 0
    /\ UNCHANGED <<model, dataset, batch_size, data_predictions, last_batch, last_call>>

\* infer_dataset(), lines 219-220: one turn of the loop.
infer_dataset_batch ==
    /\ infer_pc = "loop"
    /\ batch_no < NumBatches(dataset_len(dataset), batch_size)
    /\ LET batch == LoaderBatch(dataset, batch_size, batch_no)
           r == _infer_batch(model, batch)
       IN  /\ last_batch' = BatchRecord(model, batch)
           /\ tokenizer_calls' = tokenizer_calls + r.tokenized
           /\ generate_calls' = generate_calls + r.generated
           /\ predictions' = predictions \o r.returned
           /\ infer_pc' = IF r.raised = "none" THEN "loop" ELSE "raised"
    /\ batch_no' = batch_no + 1
    /\ UNCHANGED <<model, dataset, batch_size, targets, data_predictions, last_call>>

\* pd.DataFrame({target: targets, prediction: predictions}); columns of
\* different lengths raise ValueError.
PredictionColumns == <<"target", "prediction">>

PredictionsFrame(tgts, preds) ==
    [columns |-> PredictionColumns,
     index |-> RangeIndex(Len(tgts)),
     rows |-> [i \in 1..Len(tgts) |-> [target |-> tgts[i], prediction |-> preds[i]]]]

\* infer_dataset(), lines 222-224: the loader is exhausted.
infer_dataset_end ==
    /\ infer_pc = "loop"
    /\ batch_no = NumBatches(dataset_len(dataset), batch_size)
    /\ IF Len(targets) = Len(predictions)
       THEN /\ data_predictions' = Some(PredictionsFrame(targets, predictions))
            /\ infer_pc' = "done"
       ELSE /\ infer_pc' = "raised"
            /\ UNCHANGED data_predictions
    /\ UNCHANGED <<model, dataset, batch_size, batch_no, targets, predictions,
                   last_batch, last_call, tokenizer_calls, generate_calls>>

NoBatch == [inputs |-> <<>>, raised |-> "none", decoded |-> <<>>, returned |-> <<>>]
NoCall ==
    [op |-> "none", arg |-> <<>>, raised |-> "none", tokenized |-> 0, generated |-> 0,
     ret |-> None]

InitPipelineWith(kind, ds, b) ==
    /\ model = kind
    /\ dataset = ds
    /\ batch_size = b
    /\ infer_pc = "idle"
    /\ batch_no = 0
    /\ targets = <<>>
    /\ predictions = <<>>
    /\ data_predictions = None
    /\ last_batch = NoBatch
    /\ last_call = NoCall
    /\ tokenizer_calls = 0
    /\ generate_calls = 0

\* Most rows of a dataset handed to the pipeline, and the largest batch size.
MaxSamples == 3
MaxBatchSize == 3

Questions == {<<"a">>, <<"b", NL, "a">>}
Targets == {<<"t">>, <<"u">>}
CanonicalRows == {[question |-> q, target |-> t] : q \in Questions, t \in Targets}
Datasets ==
    {[columns |-> CanonicalColumns, index |-> RangeIndex(Len(rows)), rows |-> rows] :
        rows \in SeqsUpTo(CanonicalRows, MaxSamples)}
Samples == {<<q>> : q \in Questions \cup {<<>>}}
EmptyDataset == [columns |-> CanonicalColumns, index |-> <<>>, rows |-> <<>>]

-----------------------------------------------------------------------------
(* The predictions file: DataFrame.to_csv(path, index=False) and pd.read_csv *)

TargetName == <<"t", "a", "r", "g", "e", "t">>
PredictionName == <<"p", "r", "e", "d", "i", "c", "t", "i", "o", "n">>
ColumnText(c) == IF c = "target" THEN TargetName ELSE PredictionName

Comma == ","
\* csv.QUOTE_MINIMAL quotes a field holding the delimiter, the quote
\* character or a line break.
NeedsQuoting(s) == \E i \in 1..Len(s) : s[i] \in {Comma, QT, NL}

RECURSIVE DoubleQuotes(_)
DoubleQuotes(s) ==
    IF s = <<>> THEN <<>>
    ELSE (IF Head(s) = QT THEN <<QT, QT>> ELSE <<Head(s)>>) \o DoubleQuotes(Tail(s))

\* One cell as to_csv() writes it: a missing value as nothing (na_rep='').
CsvField(cell) ==
    IF cell = NaN THEN <<>>
    ELSE IF NeedsQuoting(cell) THEN <<QT>> \o DoubleQuotes(cell) \o <<QT>>
    ELSE cell

RECURSIVE CsvLine(_)
CsvLine(fields) ==
    IF Len(fields) = 1 THEN fields[1] \o <<NL>>
    ELSE fields[1] \o <<Comma>> \o CsvLine(Tail(fields))

RECURSIVE CsvLines(_, _)
CsvLines(t, i) ==
    IF i > NumRows(t) THEN <<>>
    ELSE CsvLine([k \in 1..Len(t.columns) |-> CsvField(t.rows[i][t.columns[k]])])
             \o CsvLines(t, i + 1)

to_csv(t) ==
    CsvLine([k \in 1..Len(t.columns) |-> ColumnText(t.columns[k])]) \o CsvLines(t, 1)

RECURSIVE Tokenize(_, _, _, _, _, _)
\* The parser's tokenizer: the records of text from position i on, each a
\* sequence of fields; blank lines are skipped.
Tokenize(text, i, state, fld, row, rows) ==
    IF i > Len(text)
    THEN IF state = "start_record" THEN rows ELSE Append(rows, Append(row, fld))
    ELSE LET c == text[i]
         IN  CASE state = "start_record" ->
                    IF c = NL THEN Tokenize(text, i + 1, "start_record", <<>>, <<>>, rows)
                    ELSE Tokenize(text, i, "start_field", <<>>, <<>>, rows)
               [] state = "start_field" ->
                    IF c = QT THEN Tokenize(text, i + 1, "in_quoted_field", <<>>, row, rows)
                    ELSE IF c = Comma
                    THEN Tokenize(text, i + 1, "start_field", <<>>, Append(row, <<>>), rows)
                    ELSE IF c = NL
                    THEN Tokenize(text, i + 1, "start_record", <<>>, <<>>,
                                  Append(rows, Append(row, <<>>)))
                    ELSE Tokenize(text, i + 1, "in_field", <<c>>, row, rows)
               [] state = "in_field" ->
                    IF c = Comma
                    THEN Tokenize(text, i + 1, "start_field", <<>>, Append(row, fld), rows)
                    ELSE IF c = NL
                    THEN Tokenize(text, i + 1, "start_record", <<>>, <<>>,
                                  Append(rows, Append(row, fld)))
                    ELSE Tokenize(text, i + 1, "in_field", Append(fld, c), row, rows)
               [] state = "in_quoted_field" ->
                    IF c = QT
                    THEN Tokenize(text, i + 1, "quote_in_quoted_field", fld, row, rows)
                    ELSE Tokenize(text, i + 1, "in_quoted_field", Append(fld, c), row, rows)
               [] state = "quote_in_quoted_field" ->
                    IF c = QT
                    THEN Tokenize(text, i + 1, "in_quoted_field", Append(fld, QT), row, rows)
                    ELSE IF c = Comma
                    THEN Tokenize(text, i + 1, "start_field", <<>>, Append(row, fld), rows)
                    ELSE IF c = NL
                    THEN Tokenize(text, i + 1, "start_record", <<>>, <<>>,
                                  Append(rows, Append(row, fld)))
                    ELSE Tokenize(text, i + 1, "in_field", Append(fld, c), row, rows)

\* Among the strings read_csv takes for a missing value by default.
NaValues == {<<>>, <<"N", "A">>, <<"n", "a", "n">>, <<"N", "a", "N">>, <<"n", "u", "l", "l">>}
Digits == {"0", "1", "2", "3", "4", "5", "6", "7", "8", "9"}
IsNumberText(s) == s # <<>> /\ \A i \in 1..Len(s) : s[i] \in Digits

RECURSIVE StripLeadingZeros(_)
StripLeadingZeros(s) ==
    IF Len(s) > 1 /\ Head(s) = "0" THEN StripLeadingZeros(Tail(s)) ELSE s

\* A number read from the file: no string.
Number(s) == <<"Number">> \o StripLeadingZeros(s)

\* read_csv's type inference on one column: the missing values, then numbers
\* when every field that is left spells one, else the strings as they are.
ConvertColumn(fields) ==
    LET present == {i \in 1..Len(fields) : fields[i] \notin NaValues}
        numeric == present # {} /\ \A i \in present : IsNumberText(fields[i])
    IN  [i \in 1..Len(fields) |->
            IF i \notin present THEN NaN
            ELSE IF numeric THEN Number(fields[i])
            ELSE fields[i]]

\* pd.read_csv(text): the columns by header text, or the error raised.
read_csv(text) ==
    LET records == Tokenize(text, 1, "start_record", <<>>, <<>>, <<>>)
    IN  IF records = <<>> THEN [raised |-> "EmptyDataError", header |-> <<>>, columns |-> <<>>]
        ELSE LET header == records[1]
                 body == Tail(records)
             IN  IF \E r \in 1..Len(body) : Len(body[r]) # Len(header)
                 THEN [raised |-> "ParserError", header |-> header, columns |-> <<>>]
                 ELSE [raised |-> "none", header |-> header,
                       columns |-> [k \in 1..Len(header) |->
                                      ConvertColumn([r \in 1..Len(body) |-> body[r][k]])]]

\* data[name].to_list(): None stands for the KeyError of a missing column.
ColumnList(frame, name) ==
    IF \E k \in 1..Len(frame.header) : frame.header[k] = name
    THEN Some(frame.columns[CHOOSE k \in 1..Len(frame.header) : frame.header[k] = name])
    ELSE None

-----------------------------------------------------------------------------
(* TaskEvaluator *)

\* The keys of what each metric's compute() returns.
MetricFields(name) ==
    CASE name = "bleu" ->
            {"bleu", "precisions", "brevity_penalty", "length_ratio",
             "translation_length", "reference_length"}
      [] name = "rouge" -> {"rouge1", "rouge2", "rougeL", "rougeLsum"}
      [] OTHER -> {"exact_match", "f1"}

IsText(cell) == cell # NaN /\ (cell = <<>> \/ cell[1] # "Number")

\* The score a metric gives a field: a value of the metric, the field and
\* the two sequences it was computed over.
Score(name, fld, preds, refs) ==
    [metric |-> name, field |-> fld, predictions |-> preds, references |-> refs]

\* metric.compute() with the arguments the other way round.
compute_swapped(name, preds, refs) ==
    IF \E i \in 1..Len(preds) : ~IsText(preds[i]) \/ ~IsText(refs[i])
    THEN [raised |-> "TypeError", value |-> <<>>]
    ELSE [raised |-> "none", value |-> [f \in MetricFields(name) |-> Score(name, f, refs, preds)]]

\* metric.compute(predictions=predictions, references=references): the
\* metrics score strings only.
compute(name, preds, refs) ==
    IF \E i \in 1..Len(preds) : ~IsText(preds[i]) \/ ~IsText(refs[i])
    THEN [raised |-> "TypeError", value |-> <<>>]
    ELSE [raised |-> "none", value |-> [f \in MetricFields(name) |-> Score(name, f, preds, refs)]]

\* The field run() takes from a computed metric (lines 286-289).
ExtractedField(name) == IF name = "bleu" THEN "bleu" ELSE "rougeL"

RECURSIVE RunMetrics(_, _, _, _, _)
\* The loop of run() over the metrics left, from the mapping and the log of
\* compute() calls so far.
RunMetrics(ms, preds, refs, calculated, computed) ==
    IF ms = <<>> THEN [raised |-> "none", ret |-> Some(calculated), computed |-> computed]
    ELSE LET name == Head(ms)
             c == compute(name, preds, refs)
         IN  IF c.raised # "none"
             THEN [raised |-> c.raised, ret |-> None, computed |-> Append(computed, name)]
             ELSE IF ExtractedField(name) \notin DOMAIN c.value
             THEN [raised |-> "KeyError", ret |-> None, computed |-> Append(computed, name)]
             ELSE RunMetrics(Tail(ms), preds, refs,
                             [n \in DOMAIN calculated \cup {name} |->
                                 IF n = name THEN c.value[ExtractedField(name)]
                                 ELSE calculated[n]],
                             Append(computed, name))

NoMetrics == [n \in {} |-> 0]

\* run(): what it read, computed and returned, or the error it raised.
RunResult(f, ms) ==
    IF f = None
    THEN [called |-> TRUE, raised |-> "FileNotFoundError", read |-> None,
          computed |-> <<>>, ret |-> None]
    ELSE LET frame == read_csv(f[1])
         IN  IF frame.raised # "none"
             THEN [called |-> TRUE, raised |-> frame.raised, read |-> None,
                   computed |-> <<>>, ret |-> None]
             ELSE IF ColumnList(frame, PredictionName) = None
                      \/ ColumnList(frame, TargetName) = None
             THEN [called |-> TRUE, raised |-> "KeyError", read |-> None,
                   computed |-> <<>>, ret |-> None]
             ELSE LET preds == ColumnList(frame, PredictionName)[1]
                      refs == ColumnList(frame, TargetName)[1]
                      r == RunMetrics(ms, preds, refs, NoMetrics, <<>>)
                  IN  [called |-> TRUE, raised |-> r.raised,
                       read |-> Some([predictions |-> preds, references |-> refs]),
                       computed |-> r.computed, ret |-> r.ret]

run ==
    /\ evaluator # None
    /\ run_result' = RunResult(file, evaluator[1])

NoRun == [called |-> FALSE, raised |-> "none", read |-> None, computed |-> <<>>, ret |-> None]

-----------------------------------------------------------------------------
(* main(): the driver *)

BATCH_SIZE == 1
HEAD_ROWS == 100

\* DataFrame.head(n)
head(t, n) ==
    LET m == IF NumRows(t) < n THEN NumRows(t) ELSE n
    IN  [columns |-> t.columns, index |-> SubSeq(t.index, 1, m), rows |-> SubSeq(t.rows, 1, m)]

SettingsMetrics == {<<"bleu">>, <<"rouge">>, <<"bleu", "rouge">>, <<"squad">>}

\* main() with the evaluation moved before the predictions are written.
StageAfterEvaluatingFirst(stage) ==
    CASE stage = "settings" -> "obtain"
      [] stage = "obtain" -> "analyze"
      [] stage = "analyze" -> "transform"
      [] stage = "transform" -> "construct_pipeline"
      [] stage = "construct_pipeline" -> "analyze_model"
      [] stage = "analyze_model" -> "infer_dataset"
      [] stage = "infer_dataset" -> "construct_evaluator"
      [] stage = "construct_evaluator" -> "run"
      [] stage = "run" -> "to_csv"
      [] stage = "to_csv" -> "assert"
      [] stage = "assert" -> "done"

\* RawDataPreprocessor(raw_data), constructed in the course of a run.
NewPreprocessor(t) ==
    /\ raw_given' = t
    /\ raw_data' = t
    /\ data' = None
    /\ analysis' = None
    /\ n_analyze' = 0
    /\ n_transform' = 0

\* LLMPipeline(model_name, dataset, max_length, batch_size, device),
\* constructed in the course of a run: the model is loaded.
NewPipeline(kind, ds, b) ==
    /\ model' = kind
    /\ dataset' = ds
    /\ batch_size' = b
    /\ infer_pc' = "idle"
    /\ batch_no' = 0
    /\ targets' = <<>>
    /\ predictions' = <<>>
    /\ data_predictions' = None
    /\ last_batch' = NoBatch
    /\ last_call' = NoCall
    /\ tokenizer_calls' = 0
    /\ generate_calls' = 0

\* The statement of main() that follows each stage.
StageAfter(stage) ==
    CASE stage = "settings" -> "obtain"
      [] stage = "obtain" -> "analyze"
      [] stage = "analyze" -> "transform"
      [] stage = "transform" -> "construct_pipeline"
      [] stage = "construct_pipeline" -> "analyze_model"
      [] stage = "analyze_model" -> "infer_dataset"
      [] stage = "infer_dataset" -> "to_csv"
      [] stage = "to_csv" -> "construct_evaluator"
      [] stage = "construct_evaluator" -> "run"
      [] stage = "run" -> "assert"
      [] stage = "assert" -> "done"

\* A stage ends: the next statement runs, or the exception leaves main().
Advance(stage, ok) ==
    /\ pc' = IF ok THEN StageAfter(stage) ELSE "aborted"
    /\ stage_log' = IF ok THEN Append(stage_log, stage) ELSE stage_log

\* Lines 24-25: the settings file is read.
main_settings ==
    /\ pc = "settings"
    /\ \E ok \in BOOLEAN, ms \in SettingsMetrics :
           /\ settings' = IF ok THEN ms ELSE settings
           /\ Advance("settings", ok)
    /\ UNCHANGED <<ImporterVars, PreprocessorVars, PipelineVars, file, n_writes,
                   evaluator, run_result>>

\* Lines 27-30: the dataset is obtained and handed to a preprocessor.
main_obtain ==
    /\ pc = "obtain"
    /\ \E fetch \in Fetches : obtain(fetch)
    /\ Advance("obtain", last_obtain'.outcome = "returned")
    /\ IF last_obtain'.outcome = "returned"
       THEN NewPreprocessor(importer_raw_data'[1])
       ELSE UNCHANGED PreprocessorVars
    /\ UNCHANGED <<PipelineVars, settings, file, n_writes, evaluator, run_result>>

\* Line 31
main_analyze ==
    /\ pc = "analyze"
    /\ analyze
    /\ Advance("analyze", analysis'[1].raised = "none")
    /\ UNCHANGED <<ImporterVars, PipelineVars, settings, file, n_writes, evaluator, run_result>>

\* Line 32
main_transform ==
    /\ pc = "transform"
    /\ transform
    /\ Advance("transform", TRUE)
    /\ UNCHANGED <<ImporterVars, PipelineVars, settings, file, n_writes, evaluator, run_result>>

\* Lines 34-39: the first rows as a TaskDataset, the model loaded.
main_construct_pipeline ==
    /\ pc = "construct_pipeline"
    /\ \E ok \in BOOLEAN, kind \in ModelKinds :
           /\ IF ok
              THEN NewPipeline(kind, head(data[1], HEAD_ROWS), BATCH_SIZE)
              ELSE UNCHANGED PipelineVars
           /\ Advance("construct_pipeline", ok)
    /\ UNCHANGED <<ImporterVars, PreprocessorVars, settings, file, n_writes, evaluator,
                   run_result>>

\* Line 40
main_analyze_model ==
    /\ pc = "analyze_model"
    /\ analyze_model
    /\ Advance("analyze_model", TRUE)
    /\ UNCHANGED <<ImporterVars, PreprocessorVars, settings, file, n_writes, evaluator,
                   run_result>>

\* Line 41: infer_dataset() begins, takes a batch, or ends.
main_infer_dataset ==
    /\ pc = "infer_dataset"
    /\ \/ infer_dataset_begin
       \/ infer_dataset_batch
       \/ infer_dataset_end
    /\ IF infer_pc' = "done" THEN Advance("infer_dataset", TRUE)
       ELSE IF infer_pc' = "raised" THEN Advance("infer_dataset", FALSE)
       ELSE UNCHANGED <<pc, stage_log>>
    /\ UNCHANGED <<ImporterVars, PreprocessorVars, settings, file, n_writes, evaluator,
                   run_result>>

\* Lines 43-45: the predictions are written.
main_to_csv ==
    /\ pc = "to_csv"
    /\ \E ok \in BOOLEAN :
           /\ file' = IF ok THEN Some(to_csv(data_predictions[1])) ELSE file
           /\ n_writes' = IF ok THEN n_writes + 1 ELSE n_writes
           /\ Advance("to_csv", ok)
    /\ UNCHANGED <<ImporterVars, PreprocessorVars, PipelineVars, settings, evaluator,
                   run_result>>

\* Lines 47-48: the metrics are loaded.
main_construct_evaluator ==
    /\ pc = "construct_evaluator"
    /\ \E ok \in BOOLEAN :
           /\ evaluator' = IF ok THEN Some(settings) ELSE evaluator
           /\ Advance("construct_evaluator", ok)
    /\ UNCHANGED <<ImporterVars, PreprocessorVars, PipelineVars, settings, file, n_writes,
                   run_result>>

\* Line 49
main_run ==
    /\ pc = "run"
    /\ run
    /\ Advance("run", run_result'.raised = "none")
    /\ UNCHANGED <<ImporterVars, PreprocessorVars, PipelineVars, settings, file, n_writes,
                   evaluator>>

\* Line 50
main_assert ==
    /\ pc = "assert"
    /\ pc' = IF run_result.ret # None THEN "done" ELSE "AssertionError"
    /\ UNCHANGED <<ImporterVars, PreprocessorVars, PipelineVars, stage_log, settings, file,
                   n_writes, evaluator, run_result>>

InitDriver ==
    /\ pc = "settings"
    /\ stage_log = <<>>
    /\ settings = <<>>
    /\ file = None
    /\ n_writes = 0
    /\ evaluator = None
    /\ run_result = NoRun

\* The objects taken alone are not driven by main().
InitNoDriver ==
    /\ pc = "none"
    /\ stage_log = <<>>
    /\ settings = <<>>
    /\ file = None
    /\ n_writes = 0
    /\ evaluator = None
    /\ run_result = NoRun

Init ==
    /\ InitImporter
    /\ InitPreprocessorWith(EmptyTable)
    /\ InitPipelineWith("None", EmptyDataset, BATCH_SIZE)
    /\ InitDriver

Next ==
    \/ main_settings
    \/ main_obtain
    \/ main_analyze
    \/ main_transform
    \/ main_construct_pipeline
    \/ main_analyze_model
    \/ main_infer_dataset
    \/ main_to_csv
    \/ main_construct_evaluator
    \/ main_run
    \/ main_assert

Spec == Init /\ [][Next]_vars

-----------------------------------------------------------------------------
(* The importer alone: obtain() called any number of times. *)

ImporterObtain ==
    /\ \E fetch \in Fetches : obtain(fetch)
    /\ UNCHANGED <<PreprocessorVars, PipelineVars, DriverVars>>

NextImporter == ImporterObtain

InitImporterAlone ==
    /\ InitImporter
    /\ InitPreprocessorWith(EmptyTable)
    /\ InitPipelineWith("None", EmptyDataset, BATCH_SIZE)
    /\ InitNoDriver

SpecImporter == InitImporterAlone /\ [][NextImporter]_vars

(* The preprocessor alone: analyze() and transform() in any order. *)

PreprocessorAnalyze == analyze /\ UNCHANGED <<ImporterVars, PipelineVars, DriverVars>>
PreprocessorTransform == transform /\ UNCHANGED <<ImporterVars, PipelineVars, DriverVars>>

NextPreprocessor ==
    \/ PreprocessorAnalyze
    \/ PreprocessorTransform

InitPreprocessorAlone ==
    /\ InitImporter
    /\ \E t \in RawTables : InitPreprocessorWith(t)
    /\ InitPipelineWith("None", EmptyDataset, BATCH_SIZE)
    /\ InitNoDriver

SpecPreprocessor == InitPreprocessorAlone /\ [][NextPreprocessor]_vars

(* The pipeline alone, over any dataset, with or without a model. *)

PipelineAnalyzeModel == analyze_model /\ UNCHANGED <<ImporterVars, PreprocessorVars, DriverVars>>
PipelineInferSample ==
    /\ \E sample \in Samples : infer_sample(sample)
    /\ UNCHANGED <<ImporterVars, PreprocessorVars, DriverVars>>
PipelineInferDatasetBegin == infer_dataset_begin /\ UNCHANGED <<ImporterVars, PreprocessorVars, DriverVars>>
PipelineInferDatasetBatch == infer_dataset_batch /\ UNCHANGED <<ImporterVars, PreprocessorVars, DriverVars>>
PipelineInferDatasetEnd == infer_dataset_end /\ UNCHANGED <<ImporterVars, PreprocessorVars, DriverVars>>

NextPipeline ==
    \/ PipelineAnalyzeModel
    \/ PipelineInferSample
    \/ PipelineInferDatasetBegin
    \/ PipelineInferDatasetBatch
    \/ PipelineInferDatasetEnd

InitPipelineAlone ==
    /\ InitImporter
    /\ InitPreprocessorWith(EmptyTable)
    /\ \E kind \in ModelKinds \cup {"None"}, ds \in Datasets, b \in 1..MaxBatchSize :
           InitPipelineWith(kind, ds, b)
    /\ InitNoDriver

SpecPipeline == InitPipelineAlone /\ [][NextPipeline]_vars

-----------------------------------------------------------------------------
(* Properties of the importer *)

\* C8: obtain() returns normally only with the table built from the dataset
\* this call fetched, raises TypeError whenever the fetched dataset is empty
\* or cannot be coerced, and lets a failed fetch propagate.
C8_ObtainHoldsFetchedTableOrRaises ==
    last_obtain.outcome # "none" =>
        LET f == last_obtain.fetch
        IN  /\ f.raises => last_obtain.outcome = "FetchError"
            /\ last_obtain.outcome = "returned" =>
                   /\ ~f.raises /\ Truthy(f) /\ f.coercible
                   /\ importer_raw_data = Some(f.table)
            /\ (~f.raises /\ (~Truthy(f) \/ ~f.coercible)) =>
                   last_obtain.outcome = "TypeError"

-----------------------------------------------------------------------------
(* Properties of the preprocessor *)

CompleteRows(t) ==
    {i \in 1..NumRows(t) : \A c \in Range(t.columns) : t.rows[i][c] # NaN}

\* C7: when analyze() returns, duplicates <= rows, missing cells >= 0, and
\* min <= max are the least and greatest instruction length over the rows
\* with no missing value; with no such row analyze() raises ValueError.
C7_AnalyzeStatistics ==
    analysis # None =>
        LET a == analysis[1]
            complete == CompleteRows(raw_given)
            len(i) == Len(raw_given.rows[i]["instruction"])
        IN  IF complete = {}
            THEN a.raised = "ValueError"
            ELSE /\ a.raised = "none"
                 /\ a.dataset_duplicates <= a.dataset_number_of_samples
                 /\ a.dataset_empty_rows >= 0
                 /\ a.dataset_sample_min_len <= a.dataset_sample_max_len
                 /\ \E i \in complete : len(i) = a.dataset_sample_min_len
                 /\ \E i \in complete : len(i) = a.dataset_sample_max_len
                 /\ \A i \in complete :
                        /\ a.dataset_sample_min_len <= len(i)
                        /\ len(i) <= a.dataset_sample_max_len

\* analyze() returned for a table with a row with a missing instruction and
\* complete rows of different lengths.
C7_Witness ==
    /\ analysis # None
    /\ analysis[1].raised = "none"
    /\ analysis[1].dataset_empty_rows > 0
    /\ \E i \in 1..NumRows(raw_given) : raw_given.rows[i]["instruction"] = NaN
    /\ analysis[1].dataset_sample_min_len < analysis[1].dataset_sample_max_len

\* C2: for a non-empty raw table transform() leaves exactly the two columns
\* question and target, the index 0..N-1, and the rows in the raw order.
C2_TransformTwoCanonicalColumns ==
    (data # None /\ NumRows(raw_given) > 0) =>
        LET d == data[1]
        IN  /\ Len(d.columns) = 2
            /\ Range(d.columns) = {"question", "target"}
            /\ d.index = RangeIndex(NumRows(raw_given))
            /\ NumRows(d) = NumRows(raw_given)
            /\ \A i \in 1..NumRows(d) :
                   /\ d.rows[i]["question"] = raw_given.rows[i]["instruction"]
                   /\ d.rows[i]["target"] = raw_given.rows[i]["response"]

\* C10: analyze() and transform() leave the raw table as it was given, so
\* every analyze() call returns the statistics of the given table and
\* transform() yields one canonical record per raw row.
C10_RawTableUnchanged ==
    /\ raw_data = raw_given
    /\ analysis # None => analysis[1] = AnalyzeResult(raw_given)
    /\ data # None => NumRows(data[1]) = NumRows(raw_given)

\* analyze() twice and then transform() on a table with a missing value.
C10_Witness ==
    /\ n_analyze = 2
    /\ n_transform >= 1
    /\ analysis # None /\ analysis[1].raised = "none"
    /\ data # None
    /\ \E i \in 1..NumRows(raw_given) : HasNa(raw_given.rows[i])

-----------------------------------------------------------------------------
(* Properties of the pipeline *)

HasNewline(s) == \E k \in 1..Len(s) : s[k] = NL

\* C3: _infer_batch returns one string per input, in order: the decoded
\* output without its first line (all of it when it has no newline); for
\* the echo model that is the question itself.
C3_InferBatchStripsFirstLine ==
    last_batch.raised = "none" =>
        /\ Len(last_batch.returned) = Len(last_batch.inputs)
        /\ \A i \in 1..Len(last_batch.inputs) :
               LET d == last_batch.decoded[i]
                   r == last_batch.returned[i]
               IN  /\ ~HasNewline(d) => r = d
                   /\ HasNewline(d) =>
                          \E k \in 1..Len(d) :
                              /\ d[k] = NL
                              /\ \A j \in 1..(k - 1) : d[j] # NL
                              /\ r = SubSeq(d, k + 1, Len(d))
                   /\ model = "echo" => r = last_batch.inputs[i]

\* The echo model on a batch of three questions, one of them of two lines.
C3_Witness ==
    /\ model = "echo"
    /\ last_batch.raised = "none"
    /\ Len(last_batch.inputs) = 3
    /\ \E i \in 1..3 : HasNewline(last_batch.inputs[i])
    /\ \E i \in 1..3 : ~HasNewline(last_batch.inputs[i])
    /\ last_batch.returned = last_batch.inputs

\* C1: with a model loaded infer_dataset() does not raise, and the table it
\* returns has one row per dataset row, row i pairing the target of dataset
\* row i with the prediction for the question of dataset row i.
C1_InferDatasetKeepsOrder ==
    /\ model # "None" => infer_pc # "raised"
    /\ infer_pc = "done" =>
           /\ data_predictions # None
           /\ NumRows(data_predictions[1]) = NumRows(dataset)
           /\ generate_calls = Cardinality({i \in 0..(NumRows(dataset) - 1) : i % batch_size = 0})
           /\ \A i \in 1..NumRows(dataset) :
                  /\ data_predictions[1].rows[i]["target"] = dataset.rows[i]["target"]
                  /\ data_predictions[1].rows[i]["prediction"] =
                         re_sub(Decode(model, dataset.rows[i]["question"]))

\* Three rows, not all alike, in batches of two: the last batch is short.
C1_Witness ==
    /\ infer_pc = "done"
    /\ NumRows(dataset) = 3
    /\ batch_size = 2
    /\ dataset.rows[1] # dataset.rows[2]
    /\ dataset.rows[2]["question"] # dataset.rows[3]["question"]
    /\ data_predictions # None
    /\ NumRows(data_predictions[1]) = 3

\* C6: without a model infer_sample returns None and analyze_model returns
\* an empty mapping; neither raises, encodes or generates.
C6_NoModelNoInference ==
    (model = "None" /\ last_call.op \in {"infer_sample", "analyze_model"}) =>
        /\ last_call.raised = "none"
        /\ last_call.tokenized = 0
        /\ last_call.generated = 0
        /\ last_call.op = "infer_sample" => last_call.ret = None
        /\ last_call.op = "analyze_model" => DOMAIN last_call.ret[1] = {}

\* infer_sample on a non-empty sample without a model.
C6_Witness ==
    /\ model = "None"
    /\ last_call.op = "infer_sample"
    /\ last_call.arg # <<<<>>>>
    /\ last_call.ret = None

-----------------------------------------------------------------------------
(* Properties of a run of main() *)

ClaimedOrder ==
    <<"settings", "obtain", "analyze", "transform", "construct_pipeline", "analyze_model",
      "infer_dataset", "to_csv", "construct_evaluator", "run">>

Completed(stage) == \E i \in 1..Len(stage_log) : stage_log[i] = stage
Ended == pc \in {"aborted", "done", "AssertionError"}

\* What holds of every state of a run: the stages completed are the first of
\* the claimed order, the stage under way is the next of them, and nothing
\* of a stage is there before the stages ahead of it completed.
StagesInOrder ==
    /\ Len(stage_log) <= Len(ClaimedOrder)
    /\ \A i \in 1..Len(stage_log) : stage_log[i] = ClaimedOrder[i]
    /\ (~Ended /\ pc # "assert") => pc = ClaimedOrder[Len(stage_log) + 1]
    /\ pc \in {"assert", "done", "AssertionError"} => Completed("run")
    /\ importer_raw_data # None => Completed("settings")
    /\ analysis # None => Completed("obtain")
    /\ data # None => Completed("analyze")
    /\ model # "None" => Completed("transform")
    /\ last_call.op # "none" => Completed("construct_pipeline")
    /\ infer_pc # "idle" => Completed("analyze_model")
    /\ n_writes <= 1
    /\ file # None => (n_writes = 1 /\ Completed("infer_dataset") /\ infer_pc = "done")
    /\ n_writes = 1 => file = Some(to_csv(data_predictions[1]))
    /\ evaluator # None => Completed("to_csv")
    /\ run_result.called => (Completed("construct_evaluator") /\ file # None)

\* C5: the stages of main() run in the claimed order, each after the one
\* before it completed; the predictions file is written once, after
\* inference, and read only after that; once a stage fails nothing more runs.
C5_StagesInStrictSequence ==
    /\ []StagesInOrder
    /\ [][~Ended /\ (pc' = "aborted" => stage_log' = stage_log)]_vars

\* A run that completed every stage, and one the evaluator ended.
C5_Witness ==
    /\ pc = "done"
    /\ Len(stage_log) = Len(ClaimedOrder)
    /\ NumRows(dataset) = 2
    /\ n_writes = 1

\* C4: what run() reads from the predictions file is what main() wrote to
\* it: the same (target, prediction) pairs in the same order.
C4_PredictionsRoundTrip ==
    run_result.read # None =>
        /\ Len(run_result.read[1].predictions) = NumRows(data_predictions[1])
        /\ \A i \in 1..NumRows(data_predictions[1]) :
               /\ run_result.read[1].references[i] = data_predictions[1].rows[i]["target"]
               /\ run_result.read[1].predictions[i] = data_predictions[1].rows[i]["prediction"]

\* C9: when run() returns it has computed every configured metric once, in
\* order, over all the predictions and targets read; its mapping has one
\* entry per metric name, the bleu field for bleu and the rougeL field for
\* any other; it is not None, so main()'s assertion does not fail.
C9_RunReturnsOneScorePerMetric ==
    /\ pc # "AssertionError"
    /\ (run_result.called /\ run_result.raised = "none") =>
           /\ run_result.ret # None
           /\ run_result.read # None
           /\ Len(run_result.read[1].predictions) = NumRows(data_predictions[1])
           /\ Len(run_result.read[1].references) = NumRows(data_predictions[1])
           /\ run_result.computed = evaluator[1]
           /\ DOMAIN run_result.ret[1] = Range(evaluator[1])
           /\ \A n \in DOMAIN run_result.ret[1] :
                  run_result.ret[1][n] =
                      Score(n, IF n = "bleu" THEN "bleu" ELSE "rougeL",
                            run_result.read[1].predictions, run_result.read[1].references)

\* run() returned the scores of two metrics over two rows.
C9_Witness ==
    /\ pc = "done"
    /\ run_result.raised = "none"
    /\ evaluator = Some(<<"bleu", "rouge">>)
    /\ Len(run_result.read[1].predictions) = 2
    /\ DOMAIN run_result.ret[1] = {"bleu", "rouge"}

=============================================================================
